---- MODULE Spec2Model ----
(***************************************************************************)
(* Time Ruler: the record store (app/store), the Timeline classification   *)
(* (components/Timeline), the drag handlers and reload of components/App.  *)
(*                                                                         *)
(* ISO strings are compared by the code as strings.  A date "2024-01-02"   *)
(* is a proper prefix of every date-time of that day, so it sorts before   *)
(* them and after every value of the previous day.  The model keeps that   *)
(* order with integers: day d as a bare date is d * SlotsPerDay and the    *)
(* date-times of day d are d * SlotsPerDay + 1 .. d * SlotsPerDay +        *)
(* SlotsPerDay - 1.                                                        *)
(***************************************************************************)
EXTENDS Integers, Sequences, FiniteSets, TLC

\* ---- bounds of the model ------------------------------------------------
NTasks == 2          \* task ids 1..NTasks
MaxDay == 1          \* days 0..MaxDay
SlotsPerDay == 3     \* values per day: the bare date and SlotsPerDay-1 times
NEvents == 2         \* event ids 1..NEvents
NItems == 3          \* items of the task table the Block is rendered on
MaxReloads == 1      \* reload() calls that may be pending at the same time

TaskIds == 1 .. NTasks
Days == 0 .. MaxDay
DateISO(d) == d * SlotsPerDay
DayOf(iso) == iso \div SlotsPerDay
Times == 0 .. (DateISO(MaxDay + 1) - 1)

VARIABLES
    store,      \* the zustand store (AppState)
    gesture,    \* DndContext: "idle" or "dragging"
    ended,      \* how the latest drag ended: "none" while there was none or one is active
    pt,         \* the running setters.patchTasks call: [st, ids, task, k]
    calls,      \* the saveTask calls of that patchTasks call, in order
    saved,      \* the record passed to the saveTask call that is awaited
    played,     \* playComplete calls of that patchTasks call
    index,      \* dv.index.initialized
    listeners,  \* callbacks registered on 'dataview:index-ready'
    reloads,    \* reload() calls waiting in `await getDailyNoteInfo()`
    loadCalls,  \* the load calls reload() has issued on the two APIs
    now,        \* the day DateTime.now() falls on
    nowISO,     \* DateTime.now().toISO(), a date-time of that day
    tlProps,    \* props of the rendered Timeline: [startISO, endISO]
    tlOut,      \* what the Timeline selectors and the bucketing returned
    blockProps, \* props of the rendered Block: [tasks, type, scheduled]
    blockOut    \* what the Block and its Groups rendered

vars == <<store, gesture, ended, pt, calls, saved, played, index, listeners, reloads, loadCalls,
          now, nowISO, tlProps, tlOut, blockProps, blockOut>>
env == <<gesture, ended, pt, calls, saved, played, index, listeners, reloads, loadCalls>>
clock == <<now, nowISO>>
grouper == <<blockProps, blockOut>>
view == <<clock, tlProps, tlOut, grouper>>

\* ---- records with optional fields ---------------------------------------
Has(r, f) == f \in DOMAIN r
EMPTY == -1                      \* the empty string ''
DELETE == 1000                   \* TaskActions.DELETE
\* JS truthiness of an optional string field: set and not ''
Truthy(r, f) == Has(r, f) /\ r[f] # EMPTY

\* { ...a, ...b }
Spread(a, b) ==
    [f \in DOMAIN a \cup DOMAIN b |-> IF f \in DOMAIN b THEN b[f] ELSE a[f]]
\* delete r[f]
Delete(r, f) == [g \in DOMAIN r \ {f} |-> r[g]]
EmptyObj == [f \in {} |-> 0]

\* an optional value is a set with at most one element
Opt(S) == {{}} \cup {{x} : x \in S}
The(o) == CHOOSE x \in o : TRUE
MkTask(id, s, d, c, p) ==
    [f \in {"id", "completed"}
            \cup (IF s = {} THEN {} ELSE {"scheduled"})
            \cup (IF d = {} THEN {} ELSE {"due"})
            \cup (IF p = {} THEN {} ELSE {"parent"}) |->
        CASE f = "id" -> id
          [] f = "completed" -> c
          [] f = "scheduled" -> The(s)
          [] f = "due" -> The(d)
          [] f = "parent" -> The(p)]

RECURSIVE SortedIds(_)
SortedIds(S) ==
    IF S = {} THEN <<>>
    ELSE LET m == CHOOSE x \in S : \A y \in S : x <= y
         IN <<m>> \o SortedIds(S \ {m})

\* _.forEach(state.tasks, ...): the records in key order
TaskList(table) == [i \in 1 .. Cardinality(DOMAIN table) |-> table[SortedIds(DOMAIN table)[i]]]

IdsOf(list) == {list[i].id : i \in DOMAIN list}

\* ---- services/util ------------------------------------------------------
isCompleted(task) == task.completed

RECURSIVE ReachesAncestor(_, _, _, _)
ReachesAncestor(table, t, id, fuel) ==
    IF fuel = 0 \/ ~Has(t, "parent") THEN FALSE
    ELSE \/ t.parent = id
         \/ /\ t.parent \in DOMAIN table
            /\ ReachesAncestor(table, table[t.parent], id, fuel - 1)

\* removes from taskList the task id itself and every task below id
removeNestedChildren(table, id, taskList) ==
    SelectSeq(taskList, LAMBDA t :
        t.id # id /\ ~ReachesAncestor(table, t, id, Cardinality(DOMAIN table)))

\* ---- components/Timeline ------------------------------------------------
\* mutant: the completion test is left out of scheduledForToday
scheduledForTodayAnyState(task, startISO, endISO, isToday) ==
    /\ Truthy(task, "scheduled")
    /\ task.scheduled < endISO
    /\ (isToday \/ task.scheduled >= startISO)

\* mutant: the window-covers-today alternative is left out
scheduledForTodayInWindowOnly(task, startISO, endISO, isToday) ==
    /\ ~isCompleted(task)
    /\ Truthy(task, "scheduled")
    /\ task.scheduled < endISO
    /\ task.scheduled >= startISO

scheduledForToday(task, startISO, endISO, isToday) ==
    /\ ~isCompleted(task)
    /\ Truthy(task, "scheduled")
    /\ task.scheduled < endISO
    /\ (isToday \/ task.scheduled >= startISO)

\* mutant: the due branch does not look at scheduledForToday
IsDueTaskNoPriority(task, startISO, endISO, isToday) ==
    /\ Truthy(task, "due")
    /\ ~isCompleted(task)
    /\ (task.due >= startISO \/ (isToday /\ task.due < endISO))
    /\ (~Truthy(task, "scheduled") \/ task.scheduled < endISO)

\* the condition of the dueTasks branch
IsDueTask(task, startISO, endISO, isToday) ==
    /\ ~scheduledForToday(task, startISO, endISO, isToday)
    /\ Truthy(task, "due")
    /\ ~isCompleted(task)
    /\ (task.due >= startISO \/ (isToday /\ task.due < endISO))
    /\ (~Truthy(task, "scheduled") \/ task.scheduled < endISO)

\* mutant: the loop stops one id early
RECURSIVE RemoveLoopSkipsLast(_, _, _)
RemoveLoopSkipsLast(table, ids, allDay) ==
    IF Len(ids) <= 1 THEN allDay
    ELSE RemoveLoopSkipsLast(table, Tail(ids), removeNestedChildren(table, Head(ids), allDay))

\* for (let id of scheduledParents) removeNestedChildren(id, allDayTasks)
RECURSIVE RemoveLoop(_, _, _)
RemoveLoop(table, ids, allDay) ==
    IF ids = <<>> THEN allDay
    ELSE RemoveLoop(table, Tail(ids), removeNestedChildren(table, Head(ids), allDay))

Timeline(table, startISO, endISO, isToday) ==
    LET all == TaskList(table)
        due(t) == IsDueTask(t, startISO, endISO, isToday)
        sft(t) == scheduledForToday(t, startISO, endISO, isToday)
        timed == SelectSeq(all, LAMBDA t : ~due(t) /\ sft(t) /\ t.scheduled > startISO)
        dueTasks == SelectSeq(all, due)
        allDay == SelectSeq(all, LAMBDA t : ~due(t) /\ sft(t) /\ ~(t.scheduled > startISO))
        scheduledParents == [i \in DOMAIN timed |-> timed[i].id]
    IN [done |-> TRUE,
        tasks |-> timed,
        dueTasks |-> dueTasks,
        allDayTasks |-> RemoveLoop(table, scheduledParents, allDay)]

isTodayOf(props, today) == DayOf(props.startISO) = today

\* services/util isDateISO: the value is a bare date
isDateISO(iso) == iso % SlotsPerDay = 0

\* _.filter(state.events, ...): the events that overlap the window and have
\* not ended yet, in key order
EventsShown(events, startISO, endISO, nowTime) ==
    SelectSeq([i \in 1 .. Cardinality(DOMAIN events) |-> events[SortedIds(DOMAIN events)[i]]],
        LAMBDA event :
            ~(\/ event.endISO <= startISO
              \/ event.startISO >= endISO
              \/ event.endISO <= nowTime))

\* object.type === 'event' ? object.startISO : object.scheduled
BlockKey(object) ==
    IF Has(object, "type") /\ object.type = "event" THEN object.startISO ELSE object.scheduled

\* _.entries(_.groupBy(list, key)): one entry <<key, items>> per key, in the
\* order in which the keys first occur; keys[i] is the key of list[i]
RECURSIVE groupBy(_, _)
groupBy(list, keys) ==
    IF list = <<>> THEN <<>>
    ELSE LET n == Len(list)
             rest == groupBy(SubSeq(list, 1, n - 1), SubSeq(keys, 1, n - 1))
             at == {i \in DOMAIN rest : rest[i][1] = keys[n]}
         IN IF at = {}
            THEN Append(rest, <<keys[n], <<list[n]>>>>)
            ELSE [i \in DOMAIN rest |->
                    IF i \in at THEN <<rest[i][1], Append(rest[i][2], list[n])>> ELSE rest[i]]

\* _.sortBy(list, ...): stable, ascending by ranks[i], the rank of list[i]
\* (the tuple of the values of the iteratees, compared from the left)
RECURSIVE LessRank(_, _)
LessRank(a, b) ==
    IF a = <<>> THEN FALSE
    ELSE \/ Head(a) < Head(b)
         \/ Head(a) = Head(b) /\ LessRank(Tail(a), Tail(b))

RECURSIVE sortBy(_, _)
sortBy(list, ranks) ==
    IF list = <<>> THEN <<>>
    ELSE LET m == CHOOSE i \in DOMAIN list :
                    /\ \A j \in DOMAIN list : ~LessRank(ranks[j], ranks[i])
                    /\ \A j \in 1 .. (i - 1) : LessRank(ranks[i], ranks[j])
             without(q) == [j \in 1 .. (Len(q) - 1) |-> IF j < m THEN q[j] ELSE q[j + 1]]
         IN <<list[m]>> \o sortBy(without(list), without(ranks))

\* mutant: the buckets at or before the window start are kept
TimeBlocksUnfiltered(tasks, events, startISO) ==
    LET atTimeEvents == SelectSeq(events, LAMBDA event : ~isDateISO(event.startISO))
        allTimeObjects == tasks \o atTimeEvents
        blocks == groupBy(allTimeObjects, [i \in DOMAIN allTimeObjects |-> BlockKey(allTimeObjects[i])])
    IN sortBy(blocks, [i \in DOMAIN blocks |-> <<blocks[i][1]>>])

\* allDayEvents / atTimeEvents, blocks, sortedBlocks, timeBlocks
TimeBlocks(tasks, events, startISO) ==
    LET atTimeEvents == SelectSeq(events, LAMBDA event : ~isDateISO(event.startISO))
        allTimeObjects == tasks \o atTimeEvents
        blocks == groupBy(allTimeObjects, [i \in DOMAIN allTimeObjects |-> BlockKey(allTimeObjects[i])])
        sortedBlocks == sortBy(blocks, [i \in DOMAIN blocks |-> <<blocks[i][1]>>])
    IN SelectSeq(sortedBlocks, LAMBDA entry : entry[1] > startISO)

\* ---- inputs of the classification ---------------------------------------
SchedOpts == Opt(Times)
\* due dates are bare dates
DueOpts == Opt({DateISO(d) : d \in Days})

\* parent links come from the nesting of list items: they never form a cycle
Acyclic(table) ==
    \A id \in DOMAIN table :
        ~ReachesAncestor(table, table[id], id, Cardinality(DOMAIN table))

IsTaskTable(t) ==
    /\ \A id \in DOMAIN t : Has(t[id], "parent") => t[id].parent # id
    /\ Acyclic(t)

Windows == {[startISO |-> DateISO(d), endISO |-> DateISO(d + 1)] : d \in Days}

NoOut == [done |-> FALSE, tasks |-> <<>>, dueTasks |-> <<>>, allDayTasks |-> <<>>,
          events |-> <<>>, timeBlocks |-> <<>>]

\* ---- components/Block ------------------------------------------------------
UNGROUPED == 0                   \* '__ungrouped'
undefined == 0                   \* the key 'undefined' of _.groupBy(tasks, 'parent')
BlockTypes == {"child", "time", "event", "default"}

KeysOf(list, f, missing) ==
    [i \in DOMAIN list |-> IF Has(list[i], f) THEN list[i][f] ELSE missing]

RECURSIVE flatten(_)
flatten(lists) == IF lists = <<>> THEN <<>> ELSE Head(lists) \o flatten(Tail(lists))

\* mutant: a placeholder is also made for a parent that is in the list
nestedTasksKeepsChildren(state, tasks, type) ==
    LET tasksByParent ==
            IF type \in {"parent", "child"}
            THEN <<<<undefined, tasks>>>>
            ELSE groupBy(tasks, KeysOf(tasks, "parent", undefined))
    IN flatten([i \in DOMAIN tasksByParent |->
            LET parentID == tasksByParent[i][1]
                children == tasksByParent[i][2]
            IN IF parentID = undefined THEN children
               ELSE <<Spread(IF parentID \in DOMAIN state.tasks
                             THEN state.tasks[parentID] ELSE EmptyObj,
                             [children |-> [j \in DOMAIN children |-> children[j].id],
                              type |-> "parent"])>>])

\* tasksByParent and nestedTasks
nestedTasks(state, tasks, type) ==
    LET tasksByParent ==
            IF type \in {"parent", "child"}
            THEN <<<<undefined, tasks>>>>
            ELSE groupBy(tasks, KeysOf(tasks, "parent", undefined))
        taskIds == {tasks[i].id : i \in DOMAIN tasks}
    IN flatten([i \in DOMAIN tasksByParent |->
            LET parentID == tasksByParent[i][1]
                children == tasksByParent[i][2]
            IN IF parentID = undefined THEN children
               ELSE IF parentID \in taskIds THEN <<>>
               ELSE <<Spread(IF parentID \in DOMAIN state.tasks
                             THEN state.tasks[parentID] ELSE EmptyObj,
                             [children |-> [j \in DOMAIN children |-> children[j].id],
                              type |-> "parent"])>>])

\* mutant: the test on the bucket's time is left out
IsTaskLinkAnyScheduled(task, scheduled) ==
    \/ task.type \in {"parent", "link"}
    \/ Truthy(task, "scheduled")

\* the condition under which Group renders a TaskLink instead of a Task;
\* scheduled is the prop, {} for null
IsTaskLink(task, scheduled) ==
    \/ task.type \in {"parent", "link"}
    \/ /\ Truthy(task, "scheduled")
       /\ \/ scheduled = {} \/ The(scheduled) = EMPTY
          \/ task.scheduled > The(scheduled)

\* mutant: the headings keep the order in which they first occur
sortedHeadingsUnsorted(tasks) ==
    groupBy(tasks, KeysOf(tasks, "heading", UNGROUPED))

\* Group with level 'group': groupedHeadings, sortedHeadings
sortedHeadings(tasks) ==
    LET groupedHeadings == groupBy(tasks, KeysOf(tasks, "heading", UNGROUPED))
    IN sortBy(groupedHeadings,
              [i \in DOMAIN groupedHeadings |->
                <<IF groupedHeadings[i][1] = UNGROUPED THEN 1 ELSE 0,
                  groupedHeadings[i][2][1].path,
                  groupedHeadings[i][2][1].line>>])

\* Group with level 'heading': one TaskLink or Task per item
Leaves(tasks, scheduled) ==
    [i \in DOMAIN tasks |-> [task |-> tasks[i], link |-> IsTaskLink(tasks[i], scheduled)]]

\* Block: sortedTasks, groupedTasks, sortedGroups and the Groups below them
Block(state, props) ==
    LET nested == nestedTasks(state, props.tasks, props.type)
        sortedTasks == sortBy(nested, [i \in DOMAIN nested |-> <<nested[i].line>>])
        groupedTasks == groupBy(sortedTasks, [i \in DOMAIN sortedTasks |-> sortedTasks[i].area])
        sortedGroups == sortBy(groupedTasks, [i \in DOMAIN groupedTasks |-> <<groupedTasks[i][1]>>])
    IN [done |-> TRUE,
        nestedTasks |-> nested,
        groups |-> [g \in DOMAIN sortedGroups |->
            LET headings == sortedHeadings(sortedGroups[g][2])
            IN [name |-> sortedGroups[g][1],
                headings |-> [h \in DOMAIN headings |->
                    [name |-> headings[h][1],
                     leaves |-> Leaves(headings[h][2], props.scheduled)]]]]]

NoBlockProps == [tasks |-> <<>>, type |-> "default", scheduled |-> {}]
NoBlockOut == [done |-> FALSE, nestedTasks |-> <<>>, groups |-> <<>>]

\* ---- app/store ------------------------------------------------------------
null == [dragType |-> "null"]
NoTasks == [id \in {} |-> EmptyObj]
NoCollapsed == [k \in {} |-> FALSE]
NoEvents == [id \in {} |-> EmptyObj]

\* createWithEqualityFn<AppState>(() => ({ ... }))
InitialStore ==
    [tasks |-> NoTasks,
     events |-> NoEvents,
     apis |-> FALSE,             \* apis: {} (no obsidian, no calendar API yet)
     dragData |-> null,
     settings |-> 0,             \* dailyNote*, dayStartEnd, hideHeadings, twentyFourHourFormat, muted
     collapsed |-> NoCollapsed]

\* mutant: the new state replaces the old one instead of being merged into it
setReplace(state, newState) == Spread(InitialStore, newState)

\* modify(() => newState): the producer returns newState and setState merges
\* it into the state, Object.assign({}, state, newState)
set(state, newState) == Spread(state, newState)

\* getters.getTask(id): undefined when the id is not in the table, and
\* spreading undefined adds nothing
getTask(state, id) == IF id \in DOMAIN state.tasks THEN state.tasks[id] ELSE EmptyObj

\* mutant: the DELETE special case is missing
savedTaskNoDelete(state, id, task) == Spread(getTask(state, id), task)

\* { ...getters.getTask(id), ...task } and the DELETE special case
savedTask(state, id, task) ==
    LET merged == Spread(getTask(state, id), task)
    IN IF Has(task, "scheduled") /\ task.scheduled = DELETE
       THEN Delete(merged, "scheduled")
       ELSE merged

PtIdle == [st |-> "idle", ids |-> <<>>, task |-> EmptyObj, k |-> 0]
PtBusy == pt.st = "await"

\* one saveTask call: the list's id, whether the store knew it, its outcome
Call(state, id) == [id |-> id, known |-> id \in DOMAIN state.tasks, res |-> "pending"]

\* if (task.completion) obsidianAPI.playComplete()
PlayComplete(task) == IF Truthy(task, "completion") THEN 1 ELSE 0

\* mutant: saveTask is not awaited, every call is issued at once
PatchTasksFromNoAwait(state, ids, task) ==
    /\ pt' = [st |-> IF ids = <<>> THEN "done" ELSE "await", ids |-> ids, task |-> task, k |-> Len(ids)]
    /\ calls' = [i \in DOMAIN ids |-> Call(state, ids[i])]
    /\ saved' = IF ids = <<>> THEN EmptyObj ELSE savedTask(state, ids[Len(ids)], task)
    /\ played' = PlayComplete(task)

\* patchTasks runs up to its first await: the first saveTask is issued, or
\* the loop is empty and the function ends
PatchTasksFrom(state, ids, task) ==
    IF ids = <<>>
    THEN /\ pt' = [st |-> "done", ids |-> ids, task |-> task, k |-> 0]
         /\ calls' = <<>>
         /\ saved' = EmptyObj
         /\ played' = PlayComplete(task)
    ELSE /\ pt' = [st |-> "await", ids |-> ids, task |-> task, k |-> 1]
         /\ calls' = <<Call(state, ids[1])>>
         /\ saved' = savedTask(state, ids[1], task)
         /\ played' = 0

SetRes(cs, r) == [cs EXCEPT ![Len(cs)].res = r]

\* the awaited saveTask resolves: next id, or the end of the loop
SaveResolve ==
    /\ PtBusy
    /\ IF pt.k < Len(pt.ids)
       THEN /\ pt' = [pt EXCEPT !.k = pt.k + 1]
            /\ calls' = Append(SetRes(calls, "ok"), Call(store, pt.ids[pt.k + 1]))
            /\ saved' = savedTask(store, pt.ids[pt.k + 1], pt.task)
            /\ played' = played
       ELSE /\ pt' = [pt EXCEPT !.st = "done"]
            /\ calls' = SetRes(calls, "ok")
            /\ saved' = EmptyObj
            /\ played' = played + PlayComplete(pt.task)
    /\ UNCHANGED <<store, gesture, ended, index, listeners, reloads, loadCalls, view>>

\* the awaited saveTask rejects: the await throws out of the loop
SaveReject ==
    /\ PtBusy
    /\ pt' = [pt EXCEPT !.st = "rejected"]
    /\ calls' = SetRes(calls, "fail")
    /\ saved' = EmptyObj
    /\ UNCHANGED <<store, gesture, ended, played, index, listeners, reloads, loadCalls, view>>

\* mutant: the old map is not spread into the new one
patchCollapsedAlone(state, id, collapsed) ==
    set(state, [collapsed |-> [k \in {id} |-> collapsed]])

\* setters.patchCollapsed(id, collapsed)
patchCollapsed(state, id, collapsed) ==
    set(state, [collapsed |-> Spread(state.collapsed, [k \in {id} |-> collapsed])])

\* ---- what the collaborators and the user can supply -----------------------
\* tables the Task Store API may load into the store: all tasks scheduled
\* (each below the one before it), all tasks unscheduled with a due date,
\* and the first of these with one task gone
BaseTask(id) ==
    MkTask(id, {DateISO(0) + (id % SlotsPerDay)},
           IF id % 2 = 1 THEN {DateISO(MaxDay)} ELSE {},
           FALSE,
           IF id > 1 THEN {id - 1} ELSE {})
AltTask(id) == MkTask(id, {}, {DateISO(0)}, FALSE, {})
LoadedTables ==
    {[id \in TaskIds |-> BaseTask(id)], [id \in TaskIds |-> AltTask(id)]}
    \cup {[id \in TaskIds \ {gone} |-> BaseTask(id)] : gone \in TaskIds}

\* id lists without repetition
IdLists ==
    {l \in UNION {[1 .. n -> TaskIds] : n \in 0 .. NTasks} :
        \A i, j \in DOMAIN l : i # j => l[i] # l[j]}

\* data of the Droppables: a day button or timeline header, the Unscheduled
\* button, a due-date zone
DropZones ==
    {[scheduled |-> DateISO(MaxDay)], [scheduled |-> EMPTY], [due |-> DateISO(MaxDay)]}

\* partial tasks the other callers of patchTasks pass (unschedule, complete)
Partials == {[scheduled |-> DELETE], [completion |-> DateISO(0)]}

DragTypes == {"task", "group", "event", "task-length", "new", "due", "new_button"}
Payloads(state) ==
    {[dragType |-> "task", ids |-> <<id>>] : id \in DOMAIN state.tasks}
    \cup {[dragType |-> "group", ids |-> SortedIds(S)] : S \in SUBSET DOMAIN state.tasks \ {{}}}
    \cup {[dragType |-> ty, ids |-> <<>>] : ty \in DragTypes \ {"task", "group"}}

SettingVals == {1}
CollapseKeys == {"a", "b"}

\* ---- services/dragging ---------------------------------------------------
\* the schedule patch of a drop zone: Unscheduled becomes the DELETE sentinel
ZonePatch(zone) ==
    IF Has(zone, "scheduled") /\ zone.scheduled = EMPTY
    THEN [scheduled |-> DELETE]
    ELSE zone

onDragStart ==
    /\ gesture = "idle"
    /\ ~PtBusy
    /\ \E p \in Payloads(store) : store' = set(store, [dragData |-> p])
    /\ gesture' = "dragging"
    /\ ended' = "none"
    /\ UNCHANGED <<pt, calls, saved, played, index, listeners, reloads, loadCalls, view>>

\* release over a drop zone
onDragEndOver ==
    /\ gesture = "dragging"
    /\ \E zone \in DropZones :
        IF store.dragData.dragType \in {"task", "group"}
        THEN PatchTasksFrom(store, store.dragData.ids, ZonePatch(zone))
        ELSE UNCHANGED <<pt, calls, saved, played>>
    /\ store' = set(store, [dragData |-> null])
    /\ gesture' = "idle"
    /\ ended' = "over"
    /\ UNCHANGED <<index, listeners, reloads, loadCalls, view>>

\* release outside every drop zone
onDragEndOutside ==
    /\ gesture = "dragging"
    /\ store' = set(store, [dragData |-> null])
    /\ gesture' = "idle"
    /\ ended' = "outside"
    /\ UNCHANGED <<pt, calls, saved, played, index, listeners, reloads, loadCalls, view>>

\* ---- components/App ------------------------------------------------------
\* mutant: the cancel handler leaves the slot alone
onDragCancelKeepsSlot ==
    /\ gesture = "dragging"
    /\ gesture' = "idle"
    /\ ended' = "cancel"
    /\ UNCHANGED <<store, pt, calls, saved, played, index, listeners, reloads, loadCalls, view>>

\* onDragCancel={() => setters.set({ dragData: null })}
onDragCancel ==
    /\ gesture = "dragging"
    /\ store' = set(store, [dragData |-> null])
    /\ gesture' = "idle"
    /\ ended' = "cancel"
    /\ UNCHANGED <<pt, calls, saved, played, index, listeners, reloads, loadCalls, view>>

\* mutant: reload does not test dv.index.initialized
reloadNoDefer ==
    /\ reloads < MaxReloads
    /\ reloads' = reloads + 1
    /\ UNCHANGED <<store, gesture, ended, pt, calls, saved, played, index, listeners, loadCalls, view>>

\* reload() up to its return or its await
reload ==
    /\ IF ~index
       THEN /\ listeners < MaxReloads
            /\ listeners' = listeners + 1
            /\ UNCHANGED reloads
       ELSE /\ reloads < MaxReloads
            /\ reloads' = reloads + 1
            /\ UNCHANGED listeners
    /\ UNCHANGED <<store, gesture, ended, pt, calls, saved, played, index, loadCalls, view>>

\* 'dataview:index-ready' fires: every registered callback calls reload()
IndexReady ==
    /\ ~index
    /\ index' = TRUE
    /\ reloads' = reloads + listeners
    /\ UNCHANGED <<store, gesture, ended, pt, calls, saved, played, listeners, loadCalls, view>>

\* reload() after `await getDailyNoteInfo()`: the settings are written, then
\* loadEvents() and loadTasks('') are called
reloadResume ==
    /\ reloads > 0
    /\ reloads' = reloads - 1
    /\ \E v \in SettingVals : store' = set(store, [apis |-> TRUE, settings |-> v])
    /\ loadCalls' = loadCalls \cup {"loadEvents", "loadTasks"}
    /\ UNCHANGED <<gesture, ended, pt, calls, saved, played, index, listeners, view>>

\* the Task Store API delivers a table: setters.set({ tasks })
TasksLoaded ==
    /\ store.apis
    /\ \E t \in LoadedTables : store' = set(store, [tasks |-> t])
    /\ UNCHANGED <<env, view>>

\* a component calls setters.patchTasks(ids, task)
PatchTasksCall ==
    /\ gesture = "idle"
    /\ ~PtBusy
    /\ store.apis
    /\ \E ids \in IdLists, task \in Partials : PatchTasksFrom(store, ids, task)
    /\ UNCHANGED <<store, gesture, ended, index, listeners, reloads, loadCalls, view>>

\* a component calls setters.patchCollapsed(id, collapsed)
PatchCollapsedCall ==
    /\ \E id \in CollapseKeys, c \in BOOLEAN : store' = patchCollapsed(store, id, c)
    /\ UNCHANGED <<env, view>>

Init ==
    /\ store = InitialStore
    /\ gesture = "idle"
    /\ ended = "none"
    /\ pt = PtIdle
    /\ calls = <<>>
    /\ saved = EmptyObj
    /\ played = 0
    /\ index \in BOOLEAN
    /\ listeners = 0
    /\ reloads = 0
    /\ loadCalls = {}
    /\ now = 0
    /\ nowISO = DateISO(0) + 1
    /\ tlProps = [startISO |-> DateISO(0), endISO |-> DateISO(1)]
    /\ tlOut = NoOut
    /\ blockProps = NoBlockProps
    /\ blockOut = NoBlockOut

Next ==
    \/ onDragStart
    \/ onDragEndOver
    \/ onDragEndOutside
    \/ onDragCancel
    \/ SaveResolve
    \/ SaveReject
    \/ reload
    \/ IndexReady
    \/ reloadResume
    \/ TasksLoaded
    \/ PatchTasksCall

Spec == Init /\ [][Next]_vars

\* ---- the writers of the store other than the task patch ------------------
StoreNext ==
    \/ PatchCollapsedCall
    \/ reload
    \/ IndexReady
    \/ reloadResume
    \/ TasksLoaded
    \/ onDragStart
    \/ onDragEndOutside
    \/ onDragCancel

StoreSpec == Init /\ [][StoreNext]_vars

\* ---- the Timeline classification on its own ------------------------------
TLInit ==
    /\ \E s \in [TaskIds -> SchedOpts], d \in [TaskIds -> DueOpts],
          c \in [TaskIds -> BOOLEAN], p \in [TaskIds -> Opt(TaskIds)] :
        LET t == [id \in TaskIds |-> MkTask(id, s[id], d[id], c[id], p[id])]
        IN /\ IsTaskTable(t)
           /\ store = set(InitialStore, [tasks |-> t])
    /\ gesture = "idle"
    /\ ended = "none"
    /\ pt = PtIdle
    /\ calls = <<>>
    /\ saved = EmptyObj
    /\ played = 0
    /\ index = TRUE
    /\ listeners = 0
    /\ reloads = 0
    /\ loadCalls = {"loadEvents", "loadTasks"}
    /\ now \in Days
    /\ nowISO = DateISO(now) + 1
    /\ tlProps \in Windows
    /\ tlOut = NoOut
    /\ blockProps = NoBlockProps
    /\ blockOut = NoBlockOut

\* the selector of Timeline runs on the current store
TimelineRender ==
    /\ LET groups == Timeline(store.tasks, tlProps.startISO, tlProps.endISO, isTodayOf(tlProps, now))
           events == EventsShown(store.events, tlProps.startISO, tlProps.endISO, nowISO)
       IN tlOut' = Spread(groups, [events |-> events,
                                   timeBlocks |-> TimeBlocks(groups.tasks, events, tlProps.startISO)])
    /\ UNCHANGED <<store, env, clock, tlProps, grouper>>

TLNext == TimelineRender

TimelineSpec == TLInit /\ [][TLNext]_vars

\* ---- the Timeline with calendar events ------------------------------------
EventIds == 1 .. NEvents
MkEvent(id, startISO, endISO) ==
    [id |-> id, type |-> "event", startISO |-> startISO, endISO |-> endISO]
\* an event ends after it starts; an all-day marker has the same bare date twice
EventSpans ==
    {sp \in Times \X Times : sp[1] < sp[2] \/ (sp[1] = sp[2] /\ isDateISO(sp[1]))}

BucketInit ==
    /\ \E s \in [TaskIds -> SchedOpts], ids \in SUBSET EventIds :
        \E sp \in [ids -> EventSpans] :
            store = set(InitialStore,
                        [tasks |-> [id \in TaskIds |-> MkTask(id, s[id], {}, FALSE, {})],
                         events |-> [id \in ids |-> MkEvent(id, sp[id][1], sp[id][2])]])
    /\ gesture = "idle"
    /\ ended = "none"
    /\ pt = PtIdle
    /\ calls = <<>>
    /\ saved = EmptyObj
    /\ played = 0
    /\ index = TRUE
    /\ listeners = 0
    /\ reloads = 0
    /\ loadCalls = {"loadEvents", "loadTasks"}
    /\ now \in Days
    /\ nowISO \in {DateISO(now) + k : k \in 1 .. (SlotsPerDay - 1)}
    /\ tlProps \in {w \in Windows : DayOf(w.startISO) >= now}
    /\ tlOut = NoOut
    /\ blockProps = NoBlockProps
    /\ blockOut = NoBlockOut

BucketSpec == BucketInit /\ [][TLNext]_vars

\* ---- the Block on a table of items -----------------------------------------
ItemIds == 1 .. NItems
Areas == {1, 2}
Paths == {1, 2}
Headings == {1, 2}
Lines == {1, 2}
MkItem(id, type, area, path, line, h, p, s) ==
    [f \in {"id", "completed", "type", "area", "path", "line"}
            \cup (IF h = {} THEN {} ELSE {"heading"})
            \cup (IF p = {} THEN {} ELSE {"parent"})
            \cup (IF s = {} THEN {} ELSE {"scheduled"}) |->
        CASE f = "id" -> id
          [] f = "completed" -> FALSE
          [] f = "type" -> type
          [] f = "area" -> area
          [] f = "path" -> path
          [] f = "line" -> line
          [] f = "heading" -> The(h)
          [] f = "parent" -> The(p)
          [] f = "scheduled" -> The(s)]

\* a parent is an earlier item of the table
ParentOpts(id) == Opt(1 .. (id - 1))
\* the lists a Block is rendered on: records of the table, in table order
ItemLists(table) ==
    {[i \in 1 .. Cardinality(S) |-> table[SortedIds(S)[i]]] :
        S \in {ItemIds, ItemIds \ {1}, ItemIds \ {NItems}, {NItems}}}

QuietInit ==
    /\ gesture = "idle"
    /\ ended = "none"
    /\ pt = PtIdle
    /\ calls = <<>>
    /\ saved = EmptyObj
    /\ played = 0
    /\ index = TRUE
    /\ listeners = 0
    /\ reloads = 0
    /\ loadCalls = {"loadEvents", "loadTasks"}
    /\ now = 0
    /\ nowISO = DateISO(0) + 1
    /\ tlProps = [startISO |-> DateISO(0), endISO |-> DateISO(1)]
    /\ tlOut = NoOut

\* items of every area, file, heading and line, none of them scheduled
GrouperInit ==
    /\ QuietInit
    /\ \E ap \in [ItemIds -> {a \in Areas \X Paths : a[1] <= a[2]}],
          l \in [ItemIds -> Lines], h \in [ItemIds -> Opt(Headings)] :
        \E p \in {q \in [ItemIds -> Opt(ItemIds)] : \A id \in ItemIds : q[id] \in ParentOpts(id)} :
            LET t == [id \in ItemIds |->
                        MkItem(id, "task", ap[id][1], ap[id][2], l[id], h[id], p[id], {})]
            IN /\ store = set(InitialStore, [tasks |-> t])
               /\ \E list \in ItemLists(t), type \in {"child", "default"} :
                    blockProps = [tasks |-> list, type |-> type, scheduled |-> {}]
    /\ blockOut = NoBlockOut

\* Block renders its props on the current store
BlockRender ==
    /\ blockOut' = Block(store, blockProps)
    /\ UNCHANGED <<store, env, clock, tlProps, tlOut, blockProps>>

GrouperNext == BlockRender

GrouperSpec == GrouperInit /\ [][GrouperNext]_vars

\* items of one heading with scheduled values and kinds, in a bucket with or
\* without a time
LeafInit ==
    /\ QuietInit
    /\ \E ty \in [ItemIds -> {"task", "link"}],
          s \in [ItemIds -> Opt({DateISO(0), DateISO(0) + 1, DateISO(1)})] :
        \E p \in {q \in [ItemIds -> Opt(ItemIds)] : \A id \in ItemIds : q[id] \in ParentOpts(id)} :
            LET t == [id \in ItemIds |-> MkItem(id, ty[id], 1, 1, id, {}, p[id], s[id])]
            IN /\ store = set(InitialStore, [tasks |-> t])
               /\ \E list \in ItemLists(t), type \in {"event", "time"},
                     scheduled \in Opt({EMPTY, DateISO(0), DateISO(0) + 1}) :
                    blockProps = [tasks |-> list, type |-> type, scheduled |-> scheduled]
    /\ blockOut = NoBlockOut

LeafSpec == LeafInit /\ [][GrouperNext]_vars

\* every gesture ends: DndContext calls onDragEnd or onDragCancel for the
\* drag it started
LiveSpec == Spec /\ WF_vars(onDragEndOver \/ onDragEndOutside \/ onDragCancel)

\* `await getDailyNoteInfo()` resolves
LoadSpec == Spec /\ WF_vars(reloadResume)

\* ======================= properties =======================================
Ended == pt.st \in {"done", "rejected"}
TimedIds == IdsOf(tlOut.tasks)
DueIds == IdsOf(tlOut.dueTasks)
AllDayIds == IdsOf(tlOut.allDayTasks)
InWindow(x) == tlProps.startISO <= x /\ x < tlProps.endISO

\* C1: whichever saveTask calls are rejected, by the time patchTasks has
\* ended saveTask has been invoked for every id of the list, also for the
\* ids after a rejected one.
C1_BatchIsolation ==
    Ended => /\ Len(calls) = Len(pt.ids)
             /\ \A i \in DOMAIN calls : calls[i].id = pt.ids[i]

\* C2: a completed task is in none of the timed, due and all-day groups.
C2_CompletedShownNowhere ==
    tlOut.done =>
        \A id \in DOMAIN store.tasks :
            isCompleted(store.tasks[id]) => id \notin TimedIds \cup DueIds \cup AllDayIds

C2_Witness ==
    /\ tlOut.done
    /\ TimedIds # {}
    /\ \E id \in DOMAIN store.tasks :
        /\ isCompleted(store.tasks[id])
        /\ Truthy(store.tasks[id], "scheduled")
        /\ InWindow(store.tasks[id].scheduled)
        /\ Truthy(store.tasks[id], "due")

\* tasks with scheduled and due both set and scheduled inside the window
BothSetInWindow ==
    {id \in DOMAIN store.tasks :
        /\ Truthy(store.tasks[id], "scheduled")
        /\ Truthy(store.tasks[id], "due")
        /\ InWindow(store.tasks[id].scheduled)}

\* the ids above id on its chain of parent links
RECURSIVE AncestorsOf(_, _, _)
AncestorsOf(table, id, fuel) ==
    IF fuel = 0 \/ id \notin DOMAIN table THEN {}
    ELSE IF ~Has(table[id], "parent") THEN {}
    ELSE {table[id].parent} \cup AncestorsOf(table, table[id].parent, fuel - 1)
Ancestors(id) == AncestorsOf(store.tasks, id, Cardinality(DOMAIN store.tasks))

\* C3 as stated: every task with scheduled and due set whose scheduled value
\* is inside the window is in a scheduled group and not in the due group, and
\* no task is in both the due group and a scheduled group.
C3_Original ==
    tlOut.done =>
        /\ \A id \in BothSetInWindow : id \in TimedIds \cup AllDayIds /\ id \notin DueIds
        /\ DueIds \cap (TimedIds \cup AllDayIds) = {}

\* C3 amended: such a task is never in the due group; it is in a scheduled
\* group when it is not completed and no ancestor of it is in the timed
\* group; no task is in both the due group and a scheduled group.
C3_ScheduledBeforeDue ==
    tlOut.done =>
        /\ \A id \in BothSetInWindow :
            /\ id \notin DueIds
            /\ (~isCompleted(store.tasks[id]) /\ Ancestors(id) \cap TimedIds = {})
                    => id \in TimedIds \cup AllDayIds
        /\ DueIds \cap (TimedIds \cup AllDayIds) = {}

C3_Witness ==
    /\ tlOut.done
    /\ \E id \in BothSetInWindow :
        /\ store.tasks[id].due >= tlProps.startISO
        /\ id \in AllDayIds
    /\ DueIds # {}

\* C4: a drag cancel sets dragData to null, issues no saveTask call and
\* leaves every other field of the store as it was.
C4_CancelWritesOnlyTheSlot ==
    [][onDragCancel =>
        /\ store' = [store EXCEPT !.dragData = null]
        /\ store.dragData # null
        /\ <<pt, calls, saved, played>>' = <<pt, calls, saved, played>>]_vars

C4_Witness ==
    /\ ended = "cancel"
    /\ store.dragData = null
    /\ DOMAIN store.tasks = TaskIds
    /\ store.settings = 1
    /\ calls # <<>>

\* C5: for an id that is not in the store's tasks table, patchTasks passes
\* no record to saveTask.
C5_StaleIdNotSaved == \A i \in DOMAIN calls : calls[i].known

\* a step that issues a saveTask call
IssuesCall ==
    /\ calls' # calls
    /\ Len(calls') > 0
    /\ calls'[Len(calls')].res = "pending"

\* C6: with partial.scheduled = DELETE the record passed to saveTask has no
\* scheduled field, and every field of the current record that the partial
\* does not name is carried over unchanged.
C6_DeleteSentinel ==
    [][IssuesCall =>
        LET base == getTask(store, calls'[Len(calls')].id)
            task == pt'.task
            deletes == Has(task, "scheduled") /\ task.scheduled = DELETE
        IN /\ deletes => ~Has(saved', "scheduled")
           /\ \A f \in DOMAIN base \ DOMAIN task : Has(saved', f) /\ saved'[f] = base[f]
           /\ \A f \in DOMAIN task :
                ~(f = "scheduled" /\ deletes) => Has(saved', f) /\ saved'[f] = task[f]
           /\ DOMAIN saved' \subseteq DOMAIN base \cup DOMAIN task]_vars

C6_Witness ==
    /\ PtBusy
    /\ Has(pt.task, "scheduled") /\ pt.task.scheduled = DELETE
    /\ LET id == calls[Len(calls)].id
       IN /\ id \in DOMAIN store.tasks
          /\ Has(store.tasks[id], "scheduled")
          /\ Has(store.tasks[id], "due")
          /\ ~Has(saved, "scheduled")
          /\ Has(saved, "due") /\ saved.due = store.tasks[id].due
          /\ saved.id = id

\* C7: when a task P is in the timed group, no task whose chain of parents
\* reaches P is left in the all-day group.
C7_AncestorSuppression ==
    tlOut.done => \A id \in AllDayIds : Ancestors(id) \cap TimedIds = {}

C7_Witness ==
    /\ tlOut.done
    /\ \E p \in TimedIds, c \in DOMAIN store.tasks :
        /\ Has(store.tasks[c], "parent") /\ store.tasks[c].parent = p
        /\ ~isCompleted(store.tasks[c])
        /\ Truthy(store.tasks[c], "scheduled")
        /\ store.tasks[c].scheduled = tlProps.startISO
        /\ ~Truthy(store.tasks[c], "due")
        /\ c \notin AllDayIds

\* C8: a drag that has put a payload into dragData always ends with
\* dragData = null, also when reload runs during the drag, and no drag
\* starts with a payload still in the slot.
C8_DragEndsIdle ==
    /\ (store.dragData # null) ~> (store.dragData = null)
    /\ [](gesture = "idle" => store.dragData = null)

C8_Witness ==
    /\ ended = "over"
    /\ gesture = "idle"
    /\ store.dragData = null
    /\ PtBusy
    /\ store.settings = 1

\* C9: reload leaves the collapsed map as it is, and patchCollapsed(id, v)
\* sets the entry of id to v and changes nothing else in the store.
C9_CollapsedKept ==
    [][/\ (reload \/ IndexReady \/ reloadResume \/ TasksLoaded)
            => store'.collapsed = store.collapsed
       /\ store'.collapsed # store.collapsed =>
            \E id \in CollapseKeys :
                /\ DOMAIN store'.collapsed = DOMAIN store.collapsed \cup {id}
                /\ \A k \in DOMAIN store.collapsed \ {id} :
                        store'.collapsed[k] = store.collapsed[k]
                /\ \A f \in DOMAIN store \ {"collapsed"} : store'[f] = store[f]
                /\ DOMAIN store' = DOMAIN store]_vars

C9_Witness ==
    /\ DOMAIN store.collapsed = CollapseKeys
    /\ store.collapsed["a"] # store.collapsed["b"]
    /\ store.apis
    /\ store.settings = 1
    /\ DOMAIN store.tasks = TaskIds

\* ---- the write loop and reload ------------------------------------------------
Pending == {i \in DOMAIN calls : calls[i].res = "pending"}

\* C15: the saveTask calls of a patchTasks call follow the id list in
\* order, a call is issued only when every call before it has succeeded, at
\* most one call is pending, and the record of a call is built from the
\* store's record of its id at the step that issues the call.
C15_SequentialWrites ==
    /\ [](/\ Len(calls) <= Len(pt.ids)
          /\ \A i \in DOMAIN calls : calls[i].id = pt.ids[i]
          /\ \A i \in DOMAIN calls : i < Len(calls) => calls[i].res = "ok"
          /\ Cardinality(Pending) <= 1
          /\ PtBusy <=> Pending # {})
    /\ [][IssuesCall =>
            LET id == calls'[Len(calls')].id
            IN /\ Len(calls') = 1 \/ (calls' = Append(SetRes(calls, "ok"), calls'[Len(calls')]) /\ Pending # {})
               /\ store'.tasks = store.tasks
               /\ calls'[Len(calls')].known = (id \in DOMAIN store.tasks)
               /\ id \in DOMAIN store.tasks =>
                    \A f \in DOMAIN store.tasks[id] \ DOMAIN pt'.task :
                        Has(saved', f) /\ saved'[f] = store.tasks[id][f]]_vars

C15_Witness ==
    /\ PtBusy
    /\ pt.ids = <<2, 1>>
    /\ Len(calls) = 2
    /\ calls[1].res = "ok" /\ calls[1].known
    /\ calls[2].known /\ saved.id = 1

\* C16: a reload while the index is not initialized writes nothing to the
\* store, calls no load and subscribes to index-ready; when index-ready
\* fires the subscribed callbacks run reload again; a reload that has passed
\* the index test eventually calls loadEvents and loadTasks; the settings are
\* in the store when a load has been called.
C16_DeferredFirstLoad ==
    /\ [][(reload /\ ~index) =>
            /\ store' = store
            /\ loadCalls' = loadCalls
            /\ reloads' = reloads
            /\ listeners' = listeners + 1]_vars
    /\ [][IndexReady => reloads' = reloads + listeners]_vars
    /\ (index /\ reloads > 0) ~> (loadCalls = {"loadEvents", "loadTasks"})
    /\ [](loadCalls # {} => store.apis /\ store.settings \in SettingVals)
    /\ [](~index => /\ loadCalls = {}
                    /\ ~store.apis
                    /\ store.settings = InitialStore.settings
                    /\ store.tasks = InitialStore.tasks)

C16_Witness ==
    /\ index
    /\ listeners > 0
    /\ reloads = 0
    /\ loadCalls = {"loadEvents", "loadTasks"}
    /\ store.settings \in SettingVals

\* C18: a patchTasks call whose partial sets completion has triggered
\* playComplete exactly once by the time it has ended, and one whose partial
\* does not set completion has not triggered it.
C18_CompletionNotified ==
    Ended => played = (IF Truthy(pt.task, "completion") THEN 1 ELSE 0)

\* ---- the three groups ------------------------------------------------------
TaskOf(id) == store.tasks[id]
\* rule (2) on the store's record, written out
ScheduledForWindow(id) ==
    /\ ~isCompleted(TaskOf(id))
    /\ Has(TaskOf(id), "scheduled")
    /\ TaskOf(id).scheduled # EMPTY
    /\ TaskOf(id).scheduled < tlProps.endISO
    /\ (DayOf(tlProps.startISO) = now \/ TaskOf(id).scheduled >= tlProps.startISO)

\* C11: every task in the due group has a due value inside the window
\* (startISO <= due < endISO) and is not scheduled for the window.
C11_DueInWindow ==
    tlOut.done =>
        \A id \in DueIds :
            /\ Truthy(TaskOf(id), "due")
            /\ InWindow(TaskOf(id).due)
            /\ ~ScheduledForWindow(id)

\* C12 as stated: the timed and all-day groups hold only tasks scheduled for
\* the window; such a task is in the timed group iff its scheduled value is
\* after the window start; every task of the all-day group has a scheduled
\* value equal to the window start.
C12_Original ==
    tlOut.done =>
        /\ \A id \in DOMAIN store.tasks :
                id \in TimedIds <=>
                    ScheduledForWindow(id) /\ TaskOf(id).scheduled > tlProps.startISO
        /\ \A id \in AllDayIds :
                ScheduledForWindow(id) /\ TaskOf(id).scheduled = tlProps.startISO

\* C12 amended: the same, but a task of the all-day group has a scheduled
\* value at or before the window start: equal to it when the window does not
\* cover today, possibly earlier when it does; and a task scheduled for the
\* window at or before its start is in the all-day group unless an ancestor
\* of it is in the timed group.
C12_TimedAllDaySplit ==
    tlOut.done =>
        /\ \A id \in DOMAIN store.tasks :
                id \in TimedIds <=>
                    ScheduledForWindow(id) /\ TaskOf(id).scheduled > tlProps.startISO
        /\ \A id \in AllDayIds :
                /\ ScheduledForWindow(id)
                /\ TaskOf(id).scheduled <= tlProps.startISO
                /\ DayOf(tlProps.startISO) # now => TaskOf(id).scheduled = tlProps.startISO
        /\ \A id \in DOMAIN store.tasks :
                (/\ ScheduledForWindow(id)
                 /\ TaskOf(id).scheduled <= tlProps.startISO
                 /\ Ancestors(id) \cap TimedIds = {}) => id \in AllDayIds

C12_Witness ==
    /\ tlOut.done
    /\ DayOf(tlProps.startISO) = now
    /\ TimedIds # {}
    /\ \E id \in AllDayIds : TaskOf(id).scheduled < tlProps.startISO

\* ---- time buckets ----------------------------------------------------------
Elems(q) == {q[i] : i \in DOMAIN q}
TimedEvents == {e \in Elems(tlOut.events) : ~isDateISO(e.startISO)}
BucketsOf(x) == {i \in DOMAIN tlOut.timeBlocks : x \in Elems(tlOut.timeBlocks[i][2])}
BucketsKeyed(k) == {i \in DOMAIN tlOut.timeBlocks : tlOut.timeBlocks[i][1] = k}
KeysInOrder ==
    /\ \A i \in DOMAIN tlOut.timeBlocks : tlOut.timeBlocks[i][1] > tlProps.startISO
    /\ \A i, j \in DOMAIN tlOut.timeBlocks :
            i < j => tlOut.timeBlocks[i][1] < tlOut.timeBlocks[j][1]
TimedTasksBucketed ==
    \A t \in Elems(tlOut.tasks) :
        BucketsOf(t) = BucketsKeyed(t.scheduled) /\ Cardinality(BucketsOf(t)) = 1
OnlyTimedItems ==
    \A i \in DOMAIN tlOut.timeBlocks :
        LET items == tlOut.timeBlocks[i][2]
        IN /\ Elems(items) \subseteq Elems(tlOut.tasks) \cup TimedEvents
           /\ \A a, b \in DOMAIN items : a # b => items[a] # items[b]

\* C13 as stated: the keys are after the window start, distinct and
\* ascending; every timed task is in exactly the bucket of its scheduled
\* value and every timed event kept by the filter is in exactly the bucket of
\* its startISO; no item is in two buckets.
C13_Original ==
    tlOut.done =>
        /\ KeysInOrder
        /\ TimedTasksBucketed
        /\ \A e \in TimedEvents :
                BucketsOf(e) = BucketsKeyed(e.startISO) /\ Cardinality(BucketsOf(e)) = 1
        /\ OnlyTimedItems

\* C13 amended: as stated for the keys and the timed tasks; a timed event
\* kept by the filter is in exactly the bucket of its startISO when it
\* starts after the window start, and in no bucket when it starts at or
\* before the window start.
C13_TimeBuckets ==
    tlOut.done =>
        /\ KeysInOrder
        /\ TimedTasksBucketed
        /\ \A e \in TimedEvents :
                /\ BucketsOf(e) = BucketsKeyed(e.startISO)
                /\ Cardinality(BucketsOf(e)) = IF e.startISO > tlProps.startISO THEN 1 ELSE 0
        /\ OnlyTimedItems

C13_Witness ==
    /\ tlOut.done
    /\ Len(tlOut.timeBlocks) = 2
    /\ Len(tlOut.timeBlocks[1][2]) = 2
    /\ \E e \in TimedEvents : e.startISO < tlProps.startISO
    /\ \E e \in TimedEvents, t \in Elems(tlOut.tasks) : BucketsOf(e) = BucketsOf(t)

\* ---- the Grouper -------------------------------------------------------------
Input == blockProps.tasks
InputIds == {Input[i].id : i \in DOMAIN Input}
Roots == blockOut.nestedTasks
Placeholders == {i \in DOMAIN Roots : Roots[i].type = "parent"}
AbsentParents == {Input[i].parent : i \in {j \in DOMAIN Input : Has(Input[j], "parent")}} \ InputIds
ChildrenIn(P) == SelectSeq(Input, LAMBDA t : Has(t, "parent") /\ t.parent = P)
SameOpt(a, b, f) == (Has(a, f) <=> Has(b, f)) /\ (Has(a, f) => a[f] = b[f])

\* what C14 says apart from the origin of the placeholder's area and heading
DedupByAncestry ==
    /\ \A i \in DOMAIN Input :
            Has(Input[i], "parent") => Input[i] \notin Elems(Roots)
    /\ \A P \in AbsentParents :
            Cardinality({i \in Placeholders : Roots[i].id = P}) = 1
    /\ \A i \in Placeholders :
            /\ Roots[i].id \in AbsentParents
            /\ Roots[i].children = [j \in DOMAIN ChildrenIn(Roots[i].id) |-> ChildrenIn(Roots[i].id)[j].id]
    /\ SelectSeq(Roots, LAMBDA x : x.type # "parent") = SelectSeq(Input, LAMBDA t : ~Has(t, "parent"))

\* C14 as stated: in a block that is not of type child no item with a
\* parent is a root item, every parent id missing from the list has exactly
\* one placeholder of kind 'parent' with the ids of its children in the list,
\* the placeholder has the area and heading of one of those children, and
\* the items without a parent are kept.
C14_Original ==
    (blockOut.done /\ blockProps.type # "child") =>
        /\ DedupByAncestry
        /\ \A i \in Placeholders :
                \E c \in Elems(ChildrenIn(Roots[i].id)) :
                    Roots[i].area = c.area /\ SameOpt(Roots[i], c, "heading")

\* C14 amended: the same, but the placeholder is the store's record of the
\* parent with children and type replaced: its area and heading are the
\* parent's own.
C14_GrouperDedup ==
    (blockOut.done /\ blockProps.type # "child") =>
        /\ DedupByAncestry
        /\ \A i \in Placeholders :
                Roots[i] = Spread(store.tasks[Roots[i].id],
                                  [children |-> Roots[i].children, type |-> "parent"])

C14_Witness ==
    /\ blockOut.done
    /\ blockProps.type # "child"
    /\ \E i \in Placeholders :
        /\ Len(Roots[i].children) = 2
        /\ \A c \in Elems(ChildrenIn(Roots[i].id)) :
                Roots[i].area # c.area /\ ~SameOpt(Roots[i], c, "heading")

\* the items of area group g, heading group h
LeafTasks(g, h) ==
    [i \in DOMAIN blockOut.groups[g].headings[h].leaves |->
        blockOut.groups[g].headings[h].leaves[i].task]
Places(x) ==
    {gh \in UNION {{<<g, h>> : h \in DOMAIN blockOut.groups[g].headings} : g \in DOMAIN blockOut.groups} :
        x \in Elems(LeafTasks(gh[1], gh[2]))}
HeadingKey(x) == IF Has(x, "heading") THEN x.heading ELSE UNGROUPED

AllLeaves ==
    UNION {UNION {Elems(blockOut.groups[g].headings[h].leaves) :
                    h \in DOMAIN blockOut.groups[g].headings} : g \in DOMAIN blockOut.groups}
BucketHasTime == blockProps.scheduled # {} /\ The(blockProps.scheduled) # EMPTY

\* C17 as stated: an item is a TaskLink exactly when its kind is 'parent' or
\* 'link' or its scheduled value is greater than the bucket's scheduled
\* time, and a Task in every other case.
C17_Original ==
    blockOut.done =>
        \A leaf \in AllLeaves :
            leaf.link <=>
                \/ leaf.task.type \in {"parent", "link"}
                \/ /\ Truthy(leaf.task, "scheduled")
                   /\ BucketHasTime
                   /\ leaf.task.scheduled > The(blockProps.scheduled)

\* C17 amended: an item is a TaskLink exactly when its kind is 'parent' or
\* 'link', or it has a scheduled value and the bucket has no scheduled time
\* or one that is less than the item's; a Task in every other case.
C17_LeafRule ==
    blockOut.done =>
        \A leaf \in AllLeaves :
            leaf.link <=>
                \/ leaf.task.type \in {"parent", "link"}
                \/ /\ Truthy(leaf.task, "scheduled")
                   /\ (~BucketHasTime \/ leaf.task.scheduled > The(blockProps.scheduled))

C17_Witness ==
    /\ blockOut.done
    /\ ~BucketHasTime
    /\ \E a, c \in AllLeaves :
        /\ a.task.type = "task" /\ Truthy(a.task, "scheduled") /\ a.link
        /\ c.task.type = "parent" /\ ~Has(c.task, "scheduled") /\ c.link

====
